---- MODULE Spec2Model ----
(***************************************************************************)
(* A64TestEnv of src/demo.c: the guest-memory and execution-environment    *)
(* callbacks handed to the execution engine.                               *)
(*                                                                         *)
(* Number representation.  TLC's integers are 32 bits wide, the program's  *)
(* are 8, 16, 32 and 64 bits wide.  A u8 and a u16 are TLC integers; a u32 *)
(* is a tuple of 2 and a u64 a tuple of 4 sixteen-bit limbs, least         *)
(* significant limb first; a Vector (std::array<u64, 2>) is a pair of u64. *)
(* Unsigned arithmetic is carried limb by limb and wraps at the width of   *)
(* the type, as the C++ types do.                                          *)
(***************************************************************************)
EXTENDS Integers, Sequences, FiniteSets, TLC

\* ------------------------------------------------------------------ bounds
\* Number of state-changing callbacks (writes, exclusive writes, AddTicks,
\* events) the engine makes in one run of the model.
MaxCalls == 2

\* --------------------------------------------------- fixed-width arithmetic
Byte == 256
Limb == 65536

IsU8(x)  == x \in 0..(Byte - 1)
IsU16(x) == x \in 0..(Limb - 1)

\* A natural number below 2^31 as a u64 (size_t and integer literals).
ToU64(n) == <<n % Limb, n \div Limb, 0, 0>>

\* A u64 known to be below 2^31 as a natural number.
ToNat(x) == x[1] + x[2] * Limb

\* u64 x + y (wraps at 2^64).
Add64(x, y) ==
    LET s1 == x[1] + y[1]
        s2 == x[2] + y[2] + (s1 \div Limb)
        s3 == x[3] + y[3] + (s2 \div Limb)
        s4 == x[4] + y[4] + (s3 \div Limb)
    IN  <<s1 % Limb, s2 % Limb, s3 % Limb, s4 % Limb>>

\* u64 x - y (wraps at 2^64).
Sub64(x, y) ==
    LET d1 == x[1] - y[1]
        d2 == x[2] - y[2] - (IF d1 < 0 THEN 1 ELSE 0)
        d3 == x[3] - y[3] - (IF d2 < 0 THEN 1 ELSE 0)
        d4 == x[4] - y[4] - (IF d3 < 0 THEN 1 ELSE 0)
    IN  <<d1 % Limb, d2 % Limb, d3 % Limb, d4 % Limb>>

\* u64 x < y, x <= y, x > y, x >= y.
Lt64(x, y) ==
    \/ x[4] < y[4]
    \/ x[4] = y[4] /\ x[3] < y[3]
    \/ x[4] = y[4] /\ x[3] = y[3] /\ x[2] < y[2]
    \/ x[4] = y[4] /\ x[3] = y[3] /\ x[2] = y[2] /\ x[1] < y[1]
Le64(x, y) == ~Lt64(y, x)
Gt64(x, y) == Lt64(y, x)
Ge64(x, y) == ~Lt64(x, y)

\* static_cast<u8>(x), static_cast<u16>(x), static_cast<u32>(x) of a wider x.
U8OfU16(x)  == x % Byte
U8OfU64(x)  == x[1] % Byte
U16OfU32(x) == x[1]
U32OfU64(x) == <<x[1], x[2]>>

\* x >> 8 of a u16, x >> 16 of a u32, x >> 32 of a u64.
Shr8(x)  == x \div Byte
Shr16(x) == <<x[2], 0>>
Shr32(x) == <<x[3], x[4], 0, 0>>

Zero64 == <<0, 0, 0, 0>>

Max64  == <<65535, 65535, 65535, 65535>>

\* -------------------------------------------------------------------- state
VARIABLES
    ticks_left,                  \* u64
    code_mem_modified_by_guest,  \* bool
    code_mem_start_address,      \* u64
    code_mem,                    \* std::vector<u32>
    modified_memory,             \* std::map<u64, u8>
    interrupts,                  \* std::vector<std::string>
    op,                          \* the last callback: its name, arguments, result
    calls,                       \* history: state-changing callbacks made so far
    ticks0,                      \* history: the budget the driver set
    spent,                       \* history: sum of all AddTicks arguments (6 limbs)
    written                      \* history: address -> last byte written there

env  == <<ticks_left, code_mem_modified_by_guest, code_mem_start_address,
          code_mem, modified_memory, interrupts>>
vars == <<ticks_left, code_mem_modified_by_guest, code_mem_start_address,
          code_mem, modified_memory, interrupts, op, calls, ticks0, spent, written>>

\* ----------------------------------------------------------- the code region
\* bool IsInCodeMem(u64 vaddr) const
IsInCodeMem(vaddr) ==
    /\ Ge64(vaddr, code_mem_start_address)
    /\ Lt64(vaddr, Add64(code_mem_start_address, ToU64(Len(code_mem) * 4)))

\* The spin sentinel 0x14000000 (B .) as a u32.
BranchToSelf == <<0, 5120>>

\* Mutant of CodeByte: the bytes of a word taken most significant first.
CodeByte_BigEndian(offset) ==
    LET w == code_mem[(offset \div 4) + 1]
        h == IF (offset % 4) < 2 THEN w[2] ELSE w[1]
    IN  IF offset % 2 = 0 THEN h \div Byte ELSE h % Byte

\* reinterpret_cast<u8*>(code_mem.data())[offset] on the little-endian hosts
\* the engine supports: byte offset % 4 of word offset / 4, low byte first.
CodeByte(offset) ==
    LET w == code_mem[(offset \div 4) + 1]
        h == IF (offset % 4) < 2 THEN w[1] ELSE w[2]
    IN  IF offset % 2 = 0 THEN h % Byte ELSE h \div Byte

\* Mutant of MemoryReadCode: a fetch inside the region returns the word with
\* the bytes held by modified_memory laid over it.
MemoryReadCode_Overlaid(vaddr) ==
    IF ~IsInCodeMem(vaddr) THEN BranchToSelf
    ELSE LET first == (ToNat(Sub64(vaddr, code_mem_start_address)) \div 4) * 4
             at(k) == Add64(code_mem_start_address, ToU64(first + k))
             byte(k) == IF at(k) \in DOMAIN modified_memory
                        THEN modified_memory[at(k)]
                        ELSE CodeByte(first + k)
         IN  <<byte(0) + byte(1) * Byte, byte(2) + byte(3) * Byte>>

\* Mutant of MemoryReadCode: a fetch outside the region looks the address up
\* in modified_memory before falling back to the sentinel.
MemoryReadCode_ReadsMemory(vaddr) ==
    IF ~IsInCodeMem(vaddr)
    THEN IF vaddr \in DOMAIN modified_memory
         THEN <<modified_memory[vaddr], 0>>
         ELSE BranchToSelf
    ELSE code_mem[(ToNat(Sub64(vaddr, code_mem_start_address)) \div 4) + 1]

\* std::optional<std::uint32_t> MemoryReadCode(u64 vaddr)
MemoryReadCode(vaddr) ==
    IF ~IsInCodeMem(vaddr) THEN BranchToSelf
    ELSE LET index == ToNat(Sub64(vaddr, code_mem_start_address)) \div 4
         IN  code_mem[index + 1]

\* ------------------------------------------------------------------- reads
\* Mutant of MemoryRead8: modified_memory is consulted first, so that a write
\* into the region shadows the region's own byte.
MemoryRead8_OverlayFirst(vaddr) ==
    IF vaddr \in DOMAIN modified_memory
    THEN modified_memory[vaddr]
    ELSE IF IsInCodeMem(vaddr)
         THEN CodeByte(ToNat(Sub64(vaddr, code_mem_start_address)))
         ELSE U8OfU64(vaddr)

\* std::uint8_t MemoryRead8(u64 vaddr)
MemoryRead8(vaddr) ==
    IF IsInCodeMem(vaddr)
    THEN CodeByte(ToNat(Sub64(vaddr, code_mem_start_address)))
    ELSE IF vaddr \in DOMAIN modified_memory
         THEN modified_memory[vaddr]
         ELSE U8OfU64(vaddr)

\* std::uint16_t MemoryRead16(u64 vaddr): u16(lo) | u16(hi) << 8
MemoryRead16(vaddr) ==
    (MemoryRead8(vaddr) + MemoryRead8(Add64(vaddr, ToU64(1))) * Byte) % Limb

\* Mutant of MemoryRead32: the high half is read at vaddr + 1.
MemoryRead32_Overlap(vaddr) ==
    <<MemoryRead16(vaddr), MemoryRead16(Add64(vaddr, ToU64(1)))>>

\* std::uint32_t MemoryRead32(u64 vaddr): u32(lo) | u32(hi) << 16
MemoryRead32(vaddr) ==
    <<MemoryRead16(vaddr), MemoryRead16(Add64(vaddr, ToU64(2)))>>

\* std::uint64_t MemoryRead64(u64 vaddr): u64(lo) | u64(hi) << 32
MemoryRead64(vaddr) ==
    MemoryRead32(vaddr) \o MemoryRead32(Add64(vaddr, ToU64(4)))

\* Vector MemoryRead128(u64 vaddr)
MemoryRead128(vaddr) ==
    <<MemoryRead64(vaddr), MemoryRead64(Add64(vaddr, ToU64(8)))>>

\* What the reads leave of the map m.  The only use a read makes of
\* modified_memory is the lookup modified_memory.find(vaddr) of MemoryRead8,
\* made when vaddr is not in the code region; the wider reads make the
\* lookups of the byte reads they are composed of, in the code's order.
\* Mutant of MapFind: the lookup is made with operator[], which inserts a
\* value-initialised byte for a key that is not there.
MapFind_Subscript(m, k) ==
    IF k \in DOMAIN m THEN m
    ELSE [x \in (DOMAIN m) \cup {k} |-> IF x = k THEN 0 ELSE m[x]]

\* modified_memory.find(vaddr): the map after the lookup
MapFind(m, k) == m

AfterMemoryRead8(m, vaddr) ==
    IF IsInCodeMem(vaddr) THEN m ELSE MapFind(m, vaddr)
AfterMemoryRead16(m, vaddr) ==
    AfterMemoryRead8(AfterMemoryRead8(m, vaddr), Add64(vaddr, ToU64(1)))
AfterMemoryRead32(m, vaddr) ==
    AfterMemoryRead16(AfterMemoryRead16(m, vaddr), Add64(vaddr, ToU64(2)))
AfterMemoryRead64(m, vaddr) ==
    AfterMemoryRead32(AfterMemoryRead32(m, vaddr), Add64(vaddr, ToU64(4)))
AfterMemoryRead128(m, vaddr) ==
    AfterMemoryRead64(AfterMemoryRead64(m, vaddr), Add64(vaddr, ToU64(8)))

\* ------------------------------------------------------------------ writes
\* The part of the environment a write can change.
Mem == [mm |-> modified_memory, flag |-> code_mem_modified_by_guest]

\* Mutant of MapPut: std::map::insert, which keeps the value of a key that is
\* already present.
MapPut_Insert(m, k, v) ==
    IF k \in DOMAIN m THEN m
    ELSE [x \in (DOMAIN m) \cup {k} |-> IF x = k THEN v ELSE m[x]]

\* Mutant of MapPut: the map is replaced by one that holds the new entry only.
MapPut_Assign(m, k, v) == [x \in {k} |-> v]

\* modified_memory[vaddr] = value
MapPut(m, k, v) == [x \in (DOMAIN m) \cup {k} |-> IF x = k THEN v ELSE m[x]]

\* Mutant of MemoryWrite8: every write sets the flag.
MemoryWrite8_FlagAlways(st, vaddr, value) ==
    [mm   |-> MapPut(st.mm, vaddr, value),
     flag |-> TRUE]

\* Mutant of MemoryWrite8: the flag is assigned the result of the test.
MemoryWrite8_FlagAssigned(st, vaddr, value) ==
    [mm   |-> MapPut(st.mm, vaddr, value),
     flag |-> IsInCodeMem(vaddr)]

\* void MemoryWrite8(u64 vaddr, std::uint8_t value)
MemoryWrite8(st, vaddr, value) ==
    [mm   |-> MapPut(st.mm, vaddr, value),
     flag |-> IF IsInCodeMem(vaddr) THEN TRUE ELSE st.flag]

\* void MemoryWrite16(u64 vaddr, std::uint16_t value)
MemoryWrite16(st, vaddr, value) ==
    MemoryWrite8(MemoryWrite8(st, vaddr, U8OfU16(value)),
                 Add64(vaddr, ToU64(1)), U8OfU16(Shr8(value)))

\* Mutant of MemoryWrite32: the two halves are stored in the wrong order.
MemoryWrite32_Swapped(st, vaddr, value) ==
    MemoryWrite16(MemoryWrite16(st, vaddr, U16OfU32(Shr16(value))),
                  Add64(vaddr, ToU64(2)), U16OfU32(value))

\* void MemoryWrite32(u64 vaddr, std::uint32_t value)
MemoryWrite32(st, vaddr, value) ==
    MemoryWrite16(MemoryWrite16(st, vaddr, U16OfU32(value)),
                  Add64(vaddr, ToU64(2)), U16OfU32(Shr16(value)))

\* void MemoryWrite64(u64 vaddr, std::uint64_t value)
MemoryWrite64(st, vaddr, value) ==
    MemoryWrite32(MemoryWrite32(st, vaddr, U32OfU64(value)),
                  Add64(vaddr, ToU64(4)), U32OfU64(Shr32(value)))

\* void MemoryWrite128(u64 vaddr, Vector value)
MemoryWrite128(st, vaddr, value) ==
    MemoryWrite64(MemoryWrite64(st, vaddr, value[1]),
                  Add64(vaddr, ToU64(8)), value[2])

\* ------------------------------------------------------------------- ticks
\* Mutant of AddTicks: the subtraction without the clamp.
AddTicks_NoClamp(left, ticks) == Sub64(left, ticks)

\* Mutant of AddTicks: the ticks are added to the budget.
AddTicks_Adds(left, ticks) == Add64(left, ticks)

\* void AddTicks(std::uint64_t ticks): the new value of ticks_left
AddTicks(left, ticks) ==
    IF Gt64(ticks, left) THEN Zero64 ELSE Sub64(left, ticks)

\* std::uint64_t GetTicksRemaining()
GetTicksRemaining == ticks_left

\* The literal 0x10000000000 of GetCNTPCT as a u64.
CntpctBase == <<0, 0, 256, 0>>

\* std::uint64_t GetCNTPCT()
GetCNTPCT == Sub64(CntpctBase, ticks_left)

\* ------------------------------------------------------------------ events
\* InterpreterFallback, CallSVC and ExceptionRaised have empty bodies (their
\* assertions are commented out): the value of interrupts after each.
InterpreterFallback(log, pc, num_instructions) == log
CallSVC(log, swi) == log
ExceptionRaised(log, pc, exception) == log

\* ------------------------------------------------------- exclusive writes
\* bool MemoryWriteExclusiveN(u64 vaddr, T value, T expected): the memory
\* after the call and the value returned.
MemoryWriteExclusive8(st, vaddr, value, expected) ==
    [st |-> MemoryWrite8(st, vaddr, value), ret |-> TRUE]
MemoryWriteExclusive16(st, vaddr, value, expected) ==
    [st |-> MemoryWrite16(st, vaddr, value), ret |-> TRUE]
\* Mutant of MemoryWriteExclusive32: a compare-and-swap, which stores and
\* reports success only when memory holds the expected value.
MemoryWriteExclusive32_Compare(st, vaddr, value, expected) ==
    IF MemoryRead32(vaddr) = expected
    THEN [st |-> MemoryWrite32(st, vaddr, value), ret |-> TRUE]
    ELSE [st |-> st, ret |-> FALSE]
MemoryWriteExclusive32(st, vaddr, value, expected) ==
    [st |-> MemoryWrite32(st, vaddr, value), ret |-> TRUE]
MemoryWriteExclusive64(st, vaddr, value, expected) ==
    [st |-> MemoryWrite64(st, vaddr, value), ret |-> TRUE]
MemoryWriteExclusive128(st, vaddr, value, expected) ==
    [st |-> MemoryWrite128(st, vaddr, value), ret |-> TRUE]

\* --------------------------------------------------------- history helpers
\* These describe what was asked of the environment, independently of how the
\* code carries it out; the claims compare the two.

\* a + i modulo 2^64, for a small natural number i.
NthAddr(a, i) ==
    LET c1 == (a[1] + i) \div Limb
        c2 == (a[2] + c1) \div Limb
        c3 == (a[3] + c2) \div Limb
    IN  <<(a[1] + i) % Limb, (a[2] + c1) % Limb, (a[3] + c2) % Limb,
          (a[4] + c3) % Limb>>

\* The bytes of a tuple of limbs, least significant first.
RECURSIVE BytesLE(_)
BytesLE(limbs) ==
    IF limbs = <<>> THEN <<>>
    ELSE <<Head(limbs) % Byte, Head(limbs) \div Byte>> \o BytesLE(Tail(limbs))

\* The addresses a, a+1, ..., a+n-1 modulo 2^64.
AddrsFrom(a, n) == {NthAddr(a, i) : i \in 0..(n - 1)}

\* w after bytes[1], bytes[2], ... were written at a, a+1, ... (no two of the
\* at most 16 addresses coincide).
NoteWrite(w, a, bytes) ==
    LET n == Len(bytes)
    IN  [x \in (DOMAIN w) \cup AddrsFrom(a, n) |->
            IF \E i \in 1..n : NthAddr(a, i - 1) = x
            THEN bytes[CHOOSE i \in 1..n : NthAddr(a, i - 1) = x]
            ELSE w[x]]

\* Arithmetic on natural numbers held as tuples of limbs of any one length.
\* x + y + carry over tuples of equal length, wrapping at that length.
RECURSIVE AddLimbs(_, _, _)
AddLimbs(x, y, carry) ==
    IF x = <<>> THEN <<>>
    ELSE LET s == Head(x) + Head(y) + carry
         IN  <<s % Limb>> \o AddLimbs(Tail(x), Tail(y), s \div Limb)

\* x - y - borrow over tuples of equal length, wrapping at that length.
RECURSIVE SubLimbs(_, _, _)
SubLimbs(x, y, borrow) ==
    IF x = <<>> THEN <<>>
    ELSE LET d == Head(x) - Head(y) - borrow
         IN  <<d % Limb>> \o SubLimbs(Tail(x), Tail(y), IF d < 0 THEN 1 ELSE 0)

\* x < y over tuples of equal length (unsigned comparison).
RECURSIVE LtLimbs(_, _)
LtLimbs(x, y) ==
    IF x = <<>> THEN FALSE
    ELSE LET n == Len(x)
         IN  \/ x[n] < y[n]
             \/ x[n] = y[n] /\ LtLimbs(SubSeq(x, 1, n - 1), SubSeq(y, 1, n - 1))

\* A u64 as a 6-limb natural number, and sums of such numbers.
Wide(x) == x \o <<0, 0>>
Narrow(x) == SubSeq(x, 1, 4)
WideAdd(x, y) == AddLimbs(x, y, 0)
WideSub(x, y) == SubLimbs(x, y, 0)
WideLt(x, y) == LtLimbs(x, y)

\* ------------------------------------------------------------------ inputs
\* The program of main() and the two-instruction program main() keeps in a
\* comment.
MainProgram ==
    <<<<0, 53888>>, <<1, 53888>>, <<66, 53888>>, <<1057, 37120>>,
      <<0, 35586>>, <<3135, 61696>>, <<65441, 21759>>>>
AltProgram == <<<<32, 53888>>, <<0, 5120>>>>

\* What the driver sets up before the run: main()'s own setup (region at 0,
\* 100 ticks); a region at 0x1000 with 0x10000000000 + 5 ticks; a region whose
\* last byte is the last byte of the address space, with 2^64 - 1 ticks.
Setups ==
    {[base |-> Zero64, words |-> MainProgram, ticks |-> <<100, 0, 0, 0>>],
     [base |-> <<4096, 0, 0, 0>>, words |-> AltProgram, ticks |-> <<5, 0, 256, 0>>],
     [base |-> <<65528, 65535, 65535, 65535>>, words |-> AltProgram, ticks |-> Max64]}

\* 1, 7, 100, 2^63, 2^64 - 1.
TickCounts == {<<1, 0, 0, 0>>, <<7, 0, 0, 0>>, <<100, 0, 0, 0>>,
               <<0, 0, 0, 32768>>, Max64}

\* Addresses are taken relative to the region, in u64 arithmetic: k bytes
\* after its first byte, and k bytes after its end base + 4 * size (k may be
\* "negative", that is 2^64 - |k|).
FromBase(k) == Add64(code_mem_start_address, k)
FromEnd(k)  == Add64(FromBase(ToU64(Len(code_mem) * 4)), k)
Minus(n)    == Sub64(Zero64, ToU64(n))
FarAddr     == <<513, 2, 0, 0>>

\* Byte 2 of the first word, the last byte of the region, the first byte after
\* it, the byte before it, and a byte far from it.
ByteAddrs == {FromBase(ToU64(2)), FromEnd(Minus(1)), FromEnd(Zero64),
              FromBase(Minus(1)), FarAddr}
\* Multi-byte accesses there cross the end of the region, or its start.
WideAddrs == {FromEnd(Minus(2)), FromBase(Minus(1))}
\* The first word, the last word (misaligned), the word after the region.
FetchAddrs == {FromBase(Zero64), FromEnd(Minus(2)), FromEnd(Zero64), FarAddr}
\* The addresses the model inspects: every address the callbacks are given,
\* every address written so far, and the bytes of the first and of the last
\* word of the region.
ProbeAddrs == ByteAddrs \cup FetchAddrs \cup DOMAIN modified_memory
RegionProbes == {FromBase(ToU64(k)) : k \in 0..3} \cup {FromEnd(Minus(k)) : k \in 1..4}

Values8   == {171, 92}
Values16  == {48879}
Values32  == {<<48879, 57005>>}
Values64  == {<<52719, 35243, 17767, 291>>}
Values128 == {<<<<52719, 35243, 17767, 291>>, <<12816, 30292, 47768, 65244>>>>}
Expected8   == {0, 171}
Expected16  == {0, 48879}
Expected32  == {<<0, 0>>, <<48879, 57005>>}
Expected64  == {Zero64, <<52719, 35243, 17767, 291>>}
Expected128 == {<<Zero64, Zero64>>,
                <<<<52719, 35243, 17767, 291>>, <<12816, 30292, 47768, 65244>>>>}

\* -------------------------------------------------------------------- Init
\* The environment as the driver hands it to the engine: the code region and
\* the budget set, nothing written, nothing logged, the flag clear.
Init ==
    /\ \E s \in Setups :
          /\ code_mem_start_address = s.base
          /\ code_mem = s.words
          /\ ticks_left = s.ticks
    /\ ticks0 = ticks_left
    /\ code_mem_modified_by_guest = FALSE
    /\ modified_memory = [x \in {} |-> 0]
    /\ interrupts = <<>>
    /\ op = [name |-> "none", args |-> <<>>, ret |-> <<>>]
    /\ calls = 0
    /\ spent = Wide(Zero64)
    /\ written = [x \in {} |-> 0]

\* ----------------------------------------------------------------- actions
\* The record of the last state-changing callback; ret is the tuple of the
\* values it returned (empty for a void callback).
Called(name, args, ret) == op' = [name |-> name, args |-> args, ret |-> ret]

\* A query that uses no container of the environment but code_mem, which it
\* indexes (MemoryReadCode, GetTicksRemaining, GetCNTPCT), returns and changes
\* nothing.  Its result is the value of the operator that models it; ok says
\* that the call returned a value of its type.
Query(ok) == ok /\ UNCHANGED vars

\* A memory read returns a value of its type and leaves the map as mm and
\* everything else as it was.
Lookup(ok, mm) ==
    /\ ok
    /\ modified_memory' = mm
    /\ UNCHANGED <<ticks_left, code_mem_modified_by_guest,
                   code_mem_start_address, code_mem, interrupts, op, calls,
                   ticks0, spent, written>>

IsU32(x)  == Len(x) = 2 /\ \A i \in 1..2 : IsU16(x[i])
IsU64(x)  == Len(x) = 4 /\ \A i \in 1..4 : IsU16(x[i])
IsVector(x) == Len(x) = 2 /\ IsU64(x[1]) /\ IsU64(x[2])

\* Mutant of Store: a write whose first byte is inside the region also stores
\* that byte into the word array.
Store_IntoCode(name, args, ret, st, vaddr, bytes) ==
    /\ calls < MaxCalls
    /\ modified_memory' = st.mm
    /\ code_mem_modified_by_guest' = st.flag
    /\ code_mem' =
          IF IsInCodeMem(vaddr)
          THEN LET offset == ToNat(Sub64(vaddr, code_mem_start_address))
                   old == BytesLE(code_mem[(offset \div 4) + 1])
                   new == [old EXCEPT ![(offset % 4) + 1] = bytes[1]]
               IN  [code_mem EXCEPT ![(offset \div 4) + 1] =
                        <<new[1] + new[2] * Byte, new[3] + new[4] * Byte>>]
          ELSE code_mem
    /\ written' = NoteWrite(written, vaddr, bytes)
    /\ calls' = calls + 1
    /\ Called(name, args, ret)
    /\ UNCHANGED <<ticks_left, code_mem_start_address, interrupts, ticks0,
                   spent>>

\* A write that leaves memory as st, having been asked to store bytes at vaddr.
Store(name, args, ret, st, vaddr, bytes) ==
    /\ calls < MaxCalls
    /\ modified_memory' = st.mm
    /\ code_mem_modified_by_guest' = st.flag
    /\ written' = NoteWrite(written, vaddr, bytes)
    /\ calls' = calls + 1
    /\ Called(name, args, ret)
    /\ UNCHANGED <<ticks_left, code_mem_start_address, code_mem, interrupts,
                   ticks0, spent>>

\* Mutant of Event: the callback also charges one tick to the budget.
Event_ChargesTick(name, args, log) ==
    /\ calls < MaxCalls
    /\ interrupts' = log
    /\ ticks_left' = AddTicks(ticks_left, ToU64(1))
    /\ calls' = calls + 1
    /\ Called(name, args, <<>>)
    /\ UNCHANGED <<code_mem_modified_by_guest, code_mem_start_address,
                   code_mem, modified_memory, ticks0, spent, written>>

\* An event callback that leaves the log as log.
Event(name, args, log) ==
    /\ calls < MaxCalls
    /\ interrupts' = log
    /\ calls' = calls + 1
    /\ Called(name, args, <<>>)
    /\ UNCHANGED <<ticks_left, code_mem_modified_by_guest, code_mem_start_address,
                   code_mem, modified_memory, ticks0, spent, written>>

DoMemoryReadCode == \E a \in FetchAddrs : Query(IsU32(MemoryReadCode(a)))
DoMemoryRead8 ==
    \E a \in ByteAddrs :
        Lookup(IsU8(MemoryRead8(a)), AfterMemoryRead8(modified_memory, a))
DoMemoryRead16 ==
    \E a \in WideAddrs :
        Lookup(IsU16(MemoryRead16(a)), AfterMemoryRead16(modified_memory, a))
DoMemoryRead32 ==
    \E a \in WideAddrs :
        Lookup(IsU32(MemoryRead32(a)), AfterMemoryRead32(modified_memory, a))
DoMemoryRead64 ==
    \E a \in WideAddrs :
        Lookup(IsU64(MemoryRead64(a)), AfterMemoryRead64(modified_memory, a))
DoMemoryRead128 ==
    \E a \in WideAddrs :
        Lookup(IsVector(MemoryRead128(a)),
               AfterMemoryRead128(modified_memory, a))

DoMemoryWrite8 ==
    \E a \in ByteAddrs, v \in Values8 :
        Store("MemoryWrite8", <<a, v>>, <<>>,
              MemoryWrite8(Mem, a, v), a, <<v>>)
DoMemoryWrite16 ==
    \E a \in WideAddrs, v \in Values16 :
        Store("MemoryWrite16", <<a, v>>, <<>>,
              MemoryWrite16(Mem, a, v), a, BytesLE(<<v>>))
DoMemoryWrite32 ==
    \E a \in WideAddrs, v \in Values32 :
        Store("MemoryWrite32", <<a, v>>, <<>>,
              MemoryWrite32(Mem, a, v), a, BytesLE(v))
DoMemoryWrite64 ==
    \E a \in WideAddrs, v \in Values64 :
        Store("MemoryWrite64", <<a, v>>, <<>>,
              MemoryWrite64(Mem, a, v), a, BytesLE(v))
DoMemoryWrite128 ==
    \E a \in WideAddrs, v \in Values128 :
        Store("MemoryWrite128", <<a, v>>, <<>>,
              MemoryWrite128(Mem, a, v), a, BytesLE(v[1] \o v[2]))

DoMemoryWriteExclusive8 ==
    \E a \in {FromBase(ToU64(2)), FromEnd(Zero64)}, v \in {171}, e \in Expected8 :
        LET r == MemoryWriteExclusive8(Mem, a, v, e)
        IN  Store("MemoryWriteExclusive8", <<a, v, e>>, <<r.ret>>, r.st, a,
                  <<v>>)
DoMemoryWriteExclusive16 ==
    \E a \in {FromEnd(Minus(2))}, v \in Values16, e \in Expected16 :
        LET r == MemoryWriteExclusive16(Mem, a, v, e)
        IN  Store("MemoryWriteExclusive16", <<a, v, e>>, <<r.ret>>, r.st, a,
                  BytesLE(<<v>>))
DoMemoryWriteExclusive32 ==
    \E a \in {FromEnd(Minus(2))}, v \in Values32, e \in Expected32 :
        LET r == MemoryWriteExclusive32(Mem, a, v, e)
        IN  Store("MemoryWriteExclusive32", <<a, v, e>>, <<r.ret>>, r.st, a,
                  BytesLE(v))
DoMemoryWriteExclusive64 ==
    \E a \in {FromEnd(Minus(2))}, v \in Values64, e \in Expected64 :
        LET r == MemoryWriteExclusive64(Mem, a, v, e)
        IN  Store("MemoryWriteExclusive64", <<a, v, e>>, <<r.ret>>, r.st, a,
                  BytesLE(v))
DoMemoryWriteExclusive128 ==
    \E a \in {FromEnd(Minus(2))}, v \in Values128, e \in Expected128 :
        LET r == MemoryWriteExclusive128(Mem, a, v, e)
        IN  Store("MemoryWriteExclusive128", <<a, v, e>>, <<r.ret>>, r.st, a,
                  BytesLE(v[1] \o v[2]))

DoInterpreterFallback ==
    \E pc \in {FromBase(Zero64)}, n \in {1} :
        Event("InterpreterFallback", <<pc, n>>,
              InterpreterFallback(interrupts, pc, n))
DoCallSVC ==
    \E swi \in {<<0, 0>>} :
        Event("CallSVC", <<swi>>, CallSVC(interrupts, swi))
DoExceptionRaised ==
    \E pc \in {FromBase(Zero64)}, e \in {"UnallocatedEncoding"} :
        Event("ExceptionRaised", <<pc, e>>, ExceptionRaised(interrupts, pc, e))

DoAddTicks ==
    \E t \in TickCounts :
        /\ calls < MaxCalls
        /\ ticks_left' = AddTicks(ticks_left, t)
        /\ spent' = WideAdd(spent, Wide(t))
        /\ calls' = calls + 1
        /\ Called("AddTicks", <<t>>, <<>>)
        /\ UNCHANGED <<code_mem_modified_by_guest, code_mem_start_address,
                       code_mem, modified_memory, interrupts, ticks0, written>>
DoGetTicksRemaining == Query(IsU64(GetTicksRemaining))
DoGetCNTPCT == Query(IsU64(GetCNTPCT))

Next ==
    \/ DoMemoryReadCode
    \/ DoMemoryRead8
    \/ DoMemoryRead16
    \/ DoMemoryRead32
    \/ DoMemoryRead64
    \/ DoMemoryRead128
    \/ DoMemoryWrite8
    \/ DoMemoryWrite16
    \/ DoMemoryWrite32
    \/ DoMemoryWrite64
    \/ DoMemoryWrite128
    \/ DoMemoryWriteExclusive8
    \/ DoMemoryWriteExclusive16
    \/ DoMemoryWriteExclusive32
    \/ DoMemoryWriteExclusive64
    \/ DoMemoryWriteExclusive128
    \/ DoInterpreterFallback
    \/ DoCallSVC
    \/ DoExceptionRaised
    \/ DoAddTicks
    \/ DoGetTicksRemaining
    \/ DoGetCNTPCT

Spec == Init /\ [][Next]_vars

\* ------------------------------------------------------ vocabulary of claims
\* "Inside the Code Region" is what the environment's own membership test
\* says of an address; whether that test agrees with the arithmetic definition
\* base <= a < base + 4 * size for every region is a separate question.
InRegion(a) == IsInCodeMem(a)

\* The region as the driver populated it.
OriginalWords ==
    (CHOOSE s \in Setups : s.base = code_mem_start_address).words

\* The offset of an address of the region from the region's first byte.
OffsetOf(a) == ToNat(Sub64(a, code_mem_start_address))

\* Byte k (0 = least significant) of the original instruction word that
\* holds address a.
OriginalByte(a) ==
    BytesLE(OriginalWords[(OffsetOf(a) \div 4) + 1])[(OffsetOf(a) % 4) + 1]

\* The address of the instruction word that holds address a.
WordAddrOf(a) == Sub64(a, ToU64(OffsetOf(a) % 4))

PlainWrites == {"MemoryWrite8", "MemoryWrite16", "MemoryWrite32",
                "MemoryWrite64", "MemoryWrite128"}
ExclusiveWrites == {"MemoryWriteExclusive8", "MemoryWriteExclusive16",
                    "MemoryWriteExclusive32", "MemoryWriteExclusive64",
                    "MemoryWriteExclusive128"}
EventCalls == {"InterpreterFallback", "CallSVC", "ExceptionRaised"}

\* The number of bytes a write callback stores.
WriteSize(name) ==
    CASE name \in {"MemoryWrite8", "MemoryWriteExclusive8"} -> 1
      [] name \in {"MemoryWrite16", "MemoryWriteExclusive16"} -> 2
      [] name \in {"MemoryWrite32", "MemoryWriteExclusive32"} -> 4
      [] name \in {"MemoryWrite64", "MemoryWriteExclusive64"} -> 8
      [] name \in {"MemoryWrite128", "MemoryWriteExclusive128"} -> 16

LastWasWrite8 == op.name = "MemoryWrite8"
LastAddr  == op.args[1]
LastValue == op.args[2]

\* ------------------------------------------------------------------- C1
\* C1 (as stated): a MemoryWrite8(a, v) immediately followed by MemoryRead8(a)
\* returns v, for a outside and for a inside the Code Region.
C1_ReadReturnsWrittenByte ==
    LastWasWrite8 => MemoryRead8(LastAddr) = LastValue

\* C1 (amended): a MemoryWrite8(a, v) immediately followed by MemoryRead8(a)
\* returns v when a is outside the Code Region; when a is inside, the read
\* returns the region's own byte at a, v is held by modified_memory only, and
\* the flag is set.
C1_ReadAfterWrite ==
    LastWasWrite8 =>
        /\ modified_memory[LastAddr] = LastValue
        /\ InRegion(LastAddr) => code_mem_modified_by_guest
        /\ MemoryRead8(LastAddr) =
              IF InRegion(LastAddr) THEN OriginalByte(LastAddr) ELSE LastValue

\* A byte was written into the region and the read of it returns the region's
\* byte, not the byte written.
C1_Witness ==
    /\ LastWasWrite8
    /\ InRegion(LastAddr)
    /\ modified_memory[LastAddr] = LastValue
    /\ MemoryRead8(LastAddr) = OriginalByte(LastAddr)
    /\ MemoryRead8(LastAddr) # LastValue
    /\ code_mem_modified_by_guest

\* ------------------------------------------------------------------- C2
\* C2 (as stated): after a MemoryWrite8 to an address inside the Code Region,
\* MemoryReadCode of the instruction word containing that address returns a
\* word whose byte at that address is the byte written, and the flag is set.
C2_FetchReflectsWrite ==
    (LastWasWrite8 /\ InRegion(LastAddr)) =>
        /\ BytesLE(MemoryReadCode(WordAddrOf(LastAddr)))[(OffsetOf(LastAddr) % 4) + 1]
              = LastValue
        /\ code_mem_modified_by_guest

\* C2 (amended): after a MemoryWrite8 to an address inside the Code Region,
\* MemoryReadCode of the instruction word containing that address still
\* returns the original instruction word (fetches never consult
\* modified_memory), and the flag is set.
C2_FetchAfterWrite ==
    (LastWasWrite8 /\ InRegion(LastAddr)) =>
        /\ MemoryReadCode(WordAddrOf(LastAddr))
              = OriginalWords[(OffsetOf(LastAddr) \div 4) + 1]
        /\ MemoryReadCode(LastAddr) = MemoryReadCode(WordAddrOf(LastAddr))
        /\ code_mem_modified_by_guest

\* The last byte of the region was overwritten with a different byte; the
\* fetch of its word returns the original word and the flag is set.
C2_Witness ==
    /\ LastWasWrite8
    /\ LastAddr = FromEnd(Minus(1))
    /\ InRegion(LastAddr)
    /\ modified_memory[LastAddr] # OriginalByte(LastAddr)
    /\ MemoryReadCode(WordAddrOf(LastAddr)) = OriginalWords[Len(OriginalWords)]
    /\ code_mem_modified_by_guest

\* ------------------------------------------------------------------- C3
\* A step that is a call of one of the three event callbacks.
EventStep == calls' = calls + 1 /\ op'.name \in EventCalls

\* C3: each call of InterpreterFallback, CallSVC or ExceptionRaised appends
\* exactly one record to interrupts, and no other callback changes
\* interrupts, so its length is the number of event calls and earlier records
\* are never removed or changed.  The code declares interrupts and its event
\* callbacks have empty bodies: the first event call leaves the log empty.
C3_EventAppendsRecord ==
    [][/\ EventStep =>
            /\ Len(interrupts') = Len(interrupts) + 1
            /\ SubSeq(interrupts', 1, Len(interrupts)) = interrupts
       /\ ~EventStep => interrupts' = interrupts]_vars

\* ------------------------------------------------------------------- C4
\* The last callback was a write, plain or exclusive, one of whose bytes has
\* an address inside the Code Region.
LastWriteHitRegion ==
    /\ op.name \in PlainWrites \cup ExclusiveWrites
    /\ \E i \in 0..(WriteSize(op.name) - 1) : InRegion(NthAddr(LastAddr, i))

\* C4: a byte write whose address is inside the Code Region sets
\* code_mem_modified_by_guest, and once set the flag stays set across every
\* later callback.
C4_FlagSetAndSticky ==
    [][/\ LastWriteHitRegion' => code_mem_modified_by_guest'
       /\ code_mem_modified_by_guest => code_mem_modified_by_guest']_vars

\* The flag is set although the last callback was not a write into the
\* region: it was set earlier and survived that callback.
C4_Witness ==
    /\ code_mem_modified_by_guest
    /\ calls = 2
    /\ ~LastWriteHitRegion
    /\ op.name \in {"MemoryWrite8", "AddTicks", "CallSVC", "MemoryWriteExclusive8"}

\* ------------------------------------------------------------------- C5
\* max(0, ticks0 - spent) over the natural numbers.
BudgetLeft ==
    IF WideLt(spent, Wide(ticks0))
    THEN Narrow(WideSub(Wide(ticks0), spent))
    ELSE Zero64

\* C5: after AddTicks(n1), AddTicks(n2), ... from the budget B the remaining
\* budget is max(0, B - n1 - n2 - ...) computed over the unbounded integers,
\* also when n1 + n2 exceeds 2^64 - 1; it never wraps below zero.
C5_TicksSaturate == ticks_left = BudgetLeft

\* Two AddTicks calls whose arguments sum to 2^64 or more.
C5_Witness ==
    /\ op.name = "AddTicks"
    /\ calls = 2
    /\ spent[5] > 0
    /\ ticks_left = Zero64

\* ------------------------------------------------------------------- C6
\* C6: the value GetCNTPCT returns after any callback (AddTicks in
\* particular) is greater than or equal to the value it returned before, for
\* every initial budget: 0x10000000000 minus the remaining budget never wraps
\* at 2^64.
C6_CounterNeverDecreases == [][Le64(GetCNTPCT, GetCNTPCT')]_vars

\* ------------------------------------------------------------------- C7
\* C7: for every address outside the Code Region MemoryReadCode returns
\* 0x14000000, whatever was written there or anywhere else before.
C7_FetchOutsideIsSentinel ==
    \A a \in ProbeAddrs : ~InRegion(a) => MemoryReadCode(a) = <<0, 5120>>

\* An address outside the region was written, and the fetch there returns the
\* sentinel.
C7_Witness ==
    \E a \in FetchAddrs :
        /\ ~InRegion(a)
        /\ a \in DOMAIN modified_memory
        /\ modified_memory[a] # 0
        /\ MemoryReadCode(a) = <<0, 5120>>

\* ------------------------------------------------------------------- C8
\* C8: for every address a outside the Code Region MemoryRead8(a) returns the
\* byte most recently written to a by a plain, multi-byte or exclusive write,
\* and a mod 256 when a was never written.
C8_ReadOutsideRegion ==
    \A a \in ProbeAddrs :
        ~InRegion(a) =>
            MemoryRead8(a) = IF a \in DOMAIN written THEN written[a]
                             ELSE a[1] % 256

\* The first byte after the region was written by a multi-byte write (which
\* also wrote the byte after it) and then by MemoryWrite8 with a different
\* byte; the read returns the later one.  The byte far away was never written
\* and reads as its address mod 256.
C8_Witness ==
    /\ LastWasWrite8
    /\ calls = 2
    /\ LastAddr = FromEnd(Zero64)
    /\ ~InRegion(LastAddr)
    /\ FromEnd(ToU64(1)) \in DOMAIN written
    /\ MemoryRead8(LastAddr) = LastValue
    /\ MemoryRead8(FarAddr) = 1

\* ------------------------------------------------------------------- C9
\* C9: for every address a inside the Code Region that was never written,
\* MemoryRead8(a) returns byte (a - base) mod 4, least significant first, of
\* the original instruction word at index (a - base) / 4.
C9_ReadInsideRegion ==
    \A a \in ProbeAddrs \cup RegionProbes :
        (InRegion(a) /\ a \notin DOMAIN written) =>
            MemoryRead8(a) = OriginalByte(a)

\* In main()'s region, after two callbacks, byte 2 of the first word
\* 0xD2800000 and the last byte of the last word 0x54FFFFA1 were not written
\* and read as 0x80 and 0x54.
C9_Witness ==
    /\ calls = 2
    /\ code_mem = MainProgram
    /\ InRegion(FromBase(ToU64(2))) /\ FromBase(ToU64(2)) \notin DOMAIN written
    /\ InRegion(FromEnd(Minus(1))) /\ FromEnd(Minus(1)) \notin DOMAIN written
    /\ MemoryRead8(FromBase(ToU64(2))) = 128
    /\ MemoryRead8(FromEnd(Minus(1))) = 84

\* ------------------------------------------------------------------ C10
\* The n 16-bit limbs assembled, least significant byte first, from the bytes
\* MemoryRead8 returns at a, a+1, ..., a+2n-1 modulo 2^64.
BytesAt(a, n) ==
    [k \in 1..n |-> MemoryRead8(NthAddr(a, 2 * k - 2))
                    + 256 * MemoryRead8(NthAddr(a, 2 * k - 1))]

\* C10: in every state and for every address a, MemoryRead16/32/64/128(a) is
\* the little-endian assembly of MemoryRead8(a), MemoryRead8(a+1), ... taken
\* in that state with addresses modulo 2^64, also across a boundary of the
\* Code Region and past the top of the address space; MemoryRead128(a) is the
\* pair MemoryRead64(a), MemoryRead64(a+8).
C10_WideReadsAreByteReads ==
    \A a \in WideAddrs \cup {Max64, Minus(15)} :
        LET lo == BytesAt(a, 4)
            hi == BytesAt(NthAddr(a, 8), 4)
            v  == MemoryRead128(a)
        IN  /\ MemoryRead16(a) = lo[1]
            /\ MemoryRead32(a) = <<lo[1], lo[2]>>
            /\ MemoryRead64(a) = lo
            /\ v = <<lo, hi>>
            /\ v[2] = MemoryRead64(NthAddr(a, 8))

\* main()'s region starts at 0: the 32-bit read at 2^64 - 1 takes a written
\* byte from the top of the address space and three bytes of the first word
\* 0xD2800000 from the region, and the 16-bit read two bytes before the end
\* of the region takes the last two bytes of 0x54FFFFA1; the 32-bit read there
\* continues with written bytes after the region.
C10_Witness ==
    /\ code_mem_start_address = Zero64
    /\ Max64 \in DOMAIN modified_memory
    /\ MemoryRead32(Max64) = <<modified_memory[Max64], 32768>>
    /\ MemoryRead8(Max64) # 255
    /\ MemoryRead16(FromEnd(Minus(2))) = 21759
    /\ FromEnd(Zero64) \in DOMAIN modified_memory
    /\ MemoryRead32(FromEnd(Minus(2)))[2]
          = modified_memory[FromEnd(Zero64)]
            + 256 * MemoryRead8(FromEnd(ToU64(1)))

\* ------------------------------------------------------------------ C11
\* The byte last written at address a + i, from the record of the calls made.
LastWritten(a, i) == written[NthAddr(a, i)]

\* The addresses a, a+1, a+2, a+3 were all written.
WordWritten(a) == \A i \in 0..3 : NthAddr(a, i) \in DOMAIN written

\* C11 (as stated): MemoryWrite32(a, v) followed by MemoryRead8(a+i), i = 0..3,
\* returns byte i of v, least significant first; and after bytes were written
\* at a..a+3, MemoryRead32(a) returns the little-endian word of the four bytes
\* last written; for every a, also when a..a+3 overlaps the Code Region.
C11_RoundTripEverywhere ==
    /\ op.name = "MemoryWrite32" =>
          \A i \in 0..3 :
              MemoryRead8(NthAddr(LastAddr, i)) = BytesLE(LastValue)[i + 1]
    /\ \A a \in WideAddrs :
          WordWritten(a) =>
              MemoryRead32(a) =
                  <<LastWritten(a, 0) + 256 * LastWritten(a, 1),
                    LastWritten(a, 2) + 256 * LastWritten(a, 3)>>

\* What a read of the written address x returns: the byte last written there
\* when x is outside the Code Region, the region's own byte when x is inside.
ReadBack(a, i) ==
    IF InRegion(NthAddr(a, i)) THEN OriginalByte(NthAddr(a, i))
    ELSE LastWritten(a, i)

\* C11 (amended): MemoryWrite32(a, v) followed by MemoryRead8(a+i), i = 0..3,
\* returns byte i of v for each a+i outside the Code Region and the region's
\* own byte for each a+i inside it; and after bytes were written at a..a+3,
\* MemoryRead32(a) returns the little-endian word made, for each a+i, of the
\* byte last written there when a+i is outside the Code Region and of the
\* region's own byte when it is inside.
C11_RoundTrip ==
    /\ op.name = "MemoryWrite32" =>
          \A i \in 0..3 :
              MemoryRead8(NthAddr(LastAddr, i)) =
                  IF InRegion(NthAddr(LastAddr, i))
                  THEN OriginalByte(NthAddr(LastAddr, i))
                  ELSE BytesLE(LastValue)[i + 1]
    /\ \A a \in WideAddrs :
          WordWritten(a) =>
              MemoryRead32(a) =
                  <<ReadBack(a, 0) + 256 * ReadBack(a, 1),
                    ReadBack(a, 2) + 256 * ReadBack(a, 3)>>

\* A 32-bit write of 0xDEADBEEF (four MemoryWrite8 calls in the code) two
\* bytes before the end of the region, then MemoryWrite8 of another byte at
\* the first address after the region.  The 32-bit read there returns the
\* region's two bytes, the byte of the later write and 0xDE.
C11_Witness ==
    /\ LastWasWrite8
    /\ calls = 2
    /\ LastAddr = FromEnd(Zero64)
    /\ DOMAIN written = AddrsFrom(FromEnd(Minus(2)), 4)
    /\ InRegion(FromEnd(Minus(1))) /\ ~InRegion(FromEnd(Zero64))
    /\ written[FromEnd(Minus(2))] = 239
    /\ MemoryRead8(FromEnd(Minus(2))) = OriginalByte(FromEnd(Minus(2)))
    /\ MemoryRead8(FromEnd(Minus(2))) # 239
    /\ MemoryRead8(FromEnd(ToU64(1))) = 222
    /\ MemoryRead32(FromEnd(Minus(2)))[2] = LastValue + 256 * 222

\* ------------------------------------------------------------------ C12
\* A step that is a call of one of the exclusive writes.
ExclusiveStep == calls' = calls + 1 /\ op'.name \in ExclusiveWrites

\* The memory the plain write of the same width leaves.
PlainWriteOf(name, st, vaddr, value) ==
    CASE name = "MemoryWriteExclusive8"   -> MemoryWrite8(st, vaddr, value)
      [] name = "MemoryWriteExclusive16"  -> MemoryWrite16(st, vaddr, value)
      [] name = "MemoryWriteExclusive32"  -> MemoryWrite32(st, vaddr, value)
      [] name = "MemoryWriteExclusive64"  -> MemoryWrite64(st, vaddr, value)
      [] name = "MemoryWriteExclusive128" -> MemoryWrite128(st, vaddr, value)

\* C12: every MemoryWriteExclusiveN(vaddr, value, expected), N = 8, 16, 32,
\* 64, 128, returns true and leaves the environment in exactly the state the
\* plain N-bit write of value at vaddr leaves, for every expected and whatever
\* memory held before.
C12_ExclusiveIsPlainWrite ==
    [][ExclusiveStep =>
          LET plain == PlainWriteOf(op'.name, Mem, op'.args[1], op'.args[2])
          IN  /\ op'.ret = <<TRUE>>
              /\ modified_memory' = plain.mm
              /\ code_mem_modified_by_guest' = plain.flag
              /\ UNCHANGED <<ticks_left, code_mem_start_address, code_mem,
                             interrupts>>]_vars

\* In main()'s region a 32-bit exclusive write two bytes before the end of the
\* region, with expected = 0 although memory there reads as 0x54FF and what an
\* earlier write left: it returned true and its bytes are stored.
C12_Witness ==
    /\ op.name = "MemoryWriteExclusive32"
    /\ calls = 2
    /\ code_mem = MainProgram
    /\ op.args[3] = <<0, 0>>
    /\ op.ret = <<TRUE>>
    /\ MemoryRead32(LastAddr) # op.args[3]
    /\ modified_memory[FromEnd(Zero64)] = 173
    /\ code_mem_modified_by_guest

\* ------------------------------------------------------------------ C13
\* C13: InterpreterFallback, CallSVC and ExceptionRaised leave
\* modified_memory, the Code Region (its base and its words), the flag and
\* ticks_left unchanged, and always return normally: each can be called in
\* every state in which the engine makes another callback, and returns (void).
C13_EventsChangeNothing ==
    [][/\ calls < MaxCalls =>
            /\ ENABLED DoInterpreterFallback
            /\ ENABLED DoCallSVC
            /\ ENABLED DoExceptionRaised
       /\ EventStep =>
            /\ op'.ret = <<>>
            /\ UNCHANGED <<modified_memory, code_mem_start_address, code_mem,
                           code_mem_modified_by_guest, ticks_left>>]_vars

\* An event callback was made after a write into the region: the byte
\* written, the flag it set and the whole budget are still there.
C13_Witness ==
    /\ op.name \in EventCalls
    /\ calls = 2
    /\ op.ret = <<>>
    /\ DOMAIN modified_memory # {}
    /\ \E a \in DOMAIN modified_memory : InRegion(a)
    /\ code_mem_modified_by_guest
    /\ ticks_left = ticks0
    /\ code_mem = OriginalWords

\* ------------------------------------------------------------------ C14
\* A step that is a call of a one-byte write, plain or exclusive.
ByteWriteStep ==
    calls' = calls + 1 /\ op'.name \in {"MemoryWrite8", "MemoryWriteExclusive8"}

\* C14: across every callback the key set of modified_memory loses no
\* address; every byte write, also one whose address is inside the Code
\* Region, leaves its address mapped to the byte written; and after any
\* sequence of writes modified_memory maps each written address to the byte
\* last written there and has no other keys.
C14_OverlayGrows ==
    [][/\ DOMAIN modified_memory \subseteq DOMAIN modified_memory'
       /\ ByteWriteStep =>
            /\ op'.args[1] \in DOMAIN modified_memory'
            /\ modified_memory'[op'.args[1]] = op'.args[2]
       /\ modified_memory' = written']_vars

\* A wide write across the end of the region stored 0xBE at the region's last
\* byte; a later MemoryWrite8 there stored another byte.  The four keys are
\* all there and the last byte of the region maps to the later byte.
C14_Witness ==
    /\ LastWasWrite8
    /\ calls = 2
    /\ LastAddr = FromEnd(Minus(1))
    /\ InRegion(LastAddr)
    /\ DOMAIN modified_memory = AddrsFrom(FromEnd(Minus(2)), 4)
    /\ modified_memory[FromEnd(Minus(2))] = 239
    /\ modified_memory[LastAddr] = LastValue
    /\ LastValue # 190

\* ------------------------------------------------------------------ C15
\* base + 4 * size over the natural numbers (it may reach or exceed 2^64).
RegionEnd ==
    WideAdd(Wide(code_mem_start_address), Wide(ToU64(4 * Len(code_mem))))

\* base <= a < base + 4 * size over the natural numbers.
InRange(a) ==
    /\ ~WideLt(Wide(a), Wide(code_mem_start_address))
    /\ WideLt(Wide(a), RegionEnd)

\* C15: IsInCodeMem(a) holds if and only if base <= a < base + 4 * size
\* evaluated over the unbounded integers, for every base and every region
\* length, also when base + 4 * size reaches or exceeds 2^64.
C15_MembershipIsArithmetic ==
    \A a \in ProbeAddrs \cup RegionProbes : IsInCodeMem(a) <=> InRange(a)

\* ------------------------------------------------------------------ C16
\* A step that is a write, plain or exclusive, at an address inside the Code
\* Region.
WriteIntoRegionStep ==
    /\ calls' = calls + 1
    /\ op'.name \in PlainWrites \cup ExclusiveWrites
    /\ InRegion(op'.args[1])

\* C16: no callback changes the Code Region: its base address and its words
\* (their number and their contents) are the same after every step; a write
\* at an address inside the Code Region stores into modified_memory and sets
\* the flag, and leaves the word array as the driver populated it.
C16_RegionIsFixed ==
    [][/\ code_mem_start_address' = code_mem_start_address
       /\ Len(code_mem') = Len(code_mem)
       /\ code_mem' = code_mem
       /\ WriteIntoRegionStep =>
            /\ op'.args[1] \in DOMAIN modified_memory'
            /\ code_mem_modified_by_guest'
            /\ code_mem' = OriginalWords]_vars

\* A 16-bit write of 0xBEEF at the last two bytes of the region: 0xEF and
\* 0xBE are stored in modified_memory, the flag is set, and the last word of
\* the region is the word the driver put there.
C16_Witness ==
    /\ op.name = "MemoryWrite16"
    /\ LastAddr = FromEnd(Minus(2))
    /\ InRegion(LastAddr)
    /\ modified_memory[LastAddr] = 239
    /\ modified_memory[FromEnd(Minus(1))] = 190
    /\ code_mem_modified_by_guest
    /\ code_mem = OriginalWords
    /\ OriginalByte(LastAddr) # 239
    /\ MemoryReadCode(LastAddr) = OriginalWords[Len(OriginalWords)]

\* ------------------------------------------------------------------ C17
\* A step that is a call of AddTicks.
AddTicksStep == calls' = calls + 1 /\ op'.name = "AddTicks"

\* C17: no callback increases ticks_left; once GetTicksRemaining returns 0 it
\* returns 0 after every later callback; and only AddTicks changes ticks_left:
\* writes, exclusive writes, reads, fetches and events leave it as it was.
C17_BudgetOnlyShrinks ==
    [][/\ Le64(ticks_left', ticks_left)
       /\ GetTicksRemaining = Zero64 => GetTicksRemaining' = Zero64
       /\ ~AddTicksStep => ticks_left' = ticks_left]_vars

\* main()'s budget of 100 was used up exactly by AddTicks(100); a second
\* AddTicks(100) left it at 0.
C17_Witness ==
    /\ op.name = "AddTicks"
    /\ calls = 2
    /\ ticks0 = <<100, 0, 0, 0>>
    /\ op.args[1] = <<100, 0, 0, 0>>
    /\ spent = <<200, 0, 0, 0, 0, 0>>
    /\ GetTicksRemaining = Zero64

\* ------------------------------------------------------------------ C18
\* A step made by a query: MemoryReadCode, MemoryRead8/16/32/64/128,
\* GetTicksRemaining or GetCNTPCT (every other callback is counted in calls).
QueryStep == calls' = calls

\* C18: the queries leave the whole environment unchanged: the keys and
\* values of modified_memory, the Code Region, the flag, ticks_left and
\* interrupts; a read of a never-written address inserts nothing into
\* modified_memory; so a query repeated after a query returns the same value
\* (what a read or a fetch returns is determined by modified_memory and the
\* Code Region, what the tick queries return by ticks_left).
C18_QueriesArePure ==
    [][QueryStep =>
          /\ UNCHANGED <<modified_memory, code_mem_start_address, code_mem,
                         code_mem_modified_by_guest, ticks_left, interrupts>>
          /\ DOMAIN modified_memory' = DOMAIN modified_memory
          /\ MemoryRead8(FarAddr)' = MemoryRead8(FarAddr)
          /\ GetTicksRemaining' = GetTicksRemaining
          /\ GetCNTPCT' = GetCNTPCT]_vars

\* Two writes were made, none at the far address nor at the first address
\* after the region: the byte read can be made, the read of the far address
\* returns the low byte of the address, and the reads leave the map without
\* those keys.
C18_Witness ==
    /\ calls = 2
    /\ DOMAIN modified_memory # {}
    /\ FarAddr \notin DOMAIN modified_memory
    /\ FromEnd(Zero64) \notin DOMAIN modified_memory
    /\ ~InRegion(FarAddr) /\ ~InRegion(FromEnd(Zero64))
    /\ ENABLED DoMemoryRead8
    /\ MemoryRead8(FarAddr) = 1
    /\ AfterMemoryRead8(modified_memory, FarAddr) = modified_memory
    /\ AfterMemoryRead128(modified_memory, FromEnd(Minus(2))) = modified_memory

\* ------------------------------------------------------------------ C19
\* C19: in every reachable state code_mem_modified_by_guest is true if and
\* only if at least one of the bytes written so far, by plain and exclusive
\* writes of every width counted byte by byte at a, a+1, ... modulo 2^64, has
\* an address inside the Code Region: writes wholly outside the region do not
\* set it, and a write that straddles a boundary of the region sets it.
C19_FlagIsExact ==
    code_mem_modified_by_guest <=> \E a \in DOMAIN written : InRegion(a)

\* In main()'s region, which starts at 0: a byte write far from the region,
\* then a 32-bit write at 2^64 - 1, whose first byte is outside the region and
\* whose other bytes, at 0, 1 and 2, are inside it.  The flag is set.
C19_Witness ==
    /\ op.name = "MemoryWrite32"
    /\ calls = 2
    /\ code_mem_start_address = Zero64
    /\ LastAddr = Max64
    /\ DOMAIN written = {FarAddr} \cup AddrsFrom(Max64, 4)
    /\ ~InRegion(FarAddr) /\ ~InRegion(LastAddr)
    /\ InRegion(NthAddr(LastAddr, 1))
    /\ code_mem_modified_by_guest
====
